---- MODULE Spec2Model ----
(***************************************************************************)
(* Model of tools/xstore/cli/restore.py: the restore driver `start`, the   *)
(* catch-up monitor wait_binlog_apply_ready, the force-init and sync       *)
(* invocations of mysqld, and the config initializer                       *)
(* initialize_local_mycnf.                                                 *)
(*                                                                         *)
(* Every function of the source is one action, or a short chain of actions *)
(* where it blocks (a child process, a sleep, a lock).  The position of    *)
(* the driver is pc; the monitor and the config initializer are called     *)
(* from the driver and keep their own positions (wpc, mpc), so that they   *)
(* can also be run on their own.                                           *)
(***************************************************************************)
EXTENDS Integers, Sequences, FiniteSets, TLC

(***************************************************************************)
(* Bounds of the model.                                                    *)
(***************************************************************************)
\* largest log index / term the environment reports
MaxIndex == 2
\* number of poll intervals the monitor's time budget stands for
\* (the source has 48*60*60 seconds = 17280 intervals of 10 seconds)
TimeoutIntervals == 2
\* the environment stops advancing the clock on its own at this reading
MaxClock == 40
\* largest number of rows in one answer of the status view
MaxRows == 2
\* largest numeric suffix of a log segment
MaxSeg == 3
\* largest term the index-inspection tool reports
MaxTerm == 1

(***************************************************************************)
(* Constants of the program.                                               *)
(***************************************************************************)
NODE_ROLE_CANDIDATE == "candidate"
NODE_ROLE_LEARNER == "learner"
NODE_ROLE_VOTER == "voter"
\* a role string that is none of the three above
NODE_ROLE_OTHER == "logger"
NodeRoles == {NODE_ROLE_CANDIDATE, NODE_ROLE_LEARNER, NODE_ROLE_VOTER, NODE_ROLE_OTHER}

\* Python's None
None == -1
\* a token that int() rejects (ValueError)
NonNumeric == -2
Indexes == 0..MaxIndex
Terms == 1..MaxTerm

\* time.sleep(10)
SLEEP_SECONDS == 10
\* the environment's clock moves in steps of one poll interval
ClockStep == SLEEP_SECONDS
\* timeout = 48 * 60 * 60, scaled to TimeoutIntervals poll intervals
timeout == TimeoutIntervals * SLEEP_SECONDS

\* the keys start reads from the descriptor
RequiredFields == {"backupCommitIndex", "backupFilePath", "binlogDirPath", "storageName", "sink"}

\* the child processes the driver starts
Children == {"xbstream", "xtrabackup", "chown", "mysqlbinlogtailor", "forceinit", "engine", "sync"}
\* the ones that are mysqld
MysqldChildren == {"forceinit", "engine", "sync"}

\* RESTORE_TEMP_DIR and the four volume directories of mkdir_needed
RestoreDirs == {"restore", "data", "log", "tmp", "run"}
\* the restored content: the extracted data tree, the copied segments, mysql_bin.index
RestoredFiles == {"datatree", "segments", "index"}
Paths == RestoreDirs \cup RestoredFiles

\* the digits "%06d" pads to (lines 354-355)
SuffixDigits == 6
\* a log segment name "<prefix>.<digits>": its prefix, the number int() reads
\* from the digits, and how many digits there are
SegmentName(prefix, n, digits) == <<prefix, n, digits>>
\* the name "<prefix>.%06d" % n
Segment(prefix, n) == SegmentName(prefix, n, SuffixDigits)
\* the staged backup archive and the staged manifest, named like segments
BackupFile == <<"backup", 0>>
ManifestFile == <<"binlog_list", 0>>

VARIABLES
    pc,                  \* position of the driver (or of the function run on its own)
    error,               \* the exception the run ended with, "" if none
    node_role,           \* context.node_role()
    commit_index,        \* params["backupCommitIndex"]
    params,              \* the keys of the descriptor json.load returned
    owner,               \* owner of each path: "absent", "root" or "mysql"
    staged,              \* files downloaded into RESTORE_TEMP_DIR
    marker_file,         \* xtrabackup_binlog_info: "absent" or its tokens
    mysql_bin_list,      \* the manifest as read by download_binlogbackup_file
    index_file,          \* the text of mysql_bin.index: paths and newlines
    cluster_start_index, \* result of get_xtrabackup_binlog_info_from_instance_local
    last_binlog,         \* result of show_last_and_first_binlog
    end_index,           \* xdb_show_binlog_index(...)[0]
    end_term,            \* xdb_show_binlog_index(...)[1]
    init_metadata_cmd,   \* arguments force-init was started with
    apply_backup_cmd,    \* command of apply_backup_file while it runs
    proc,                \* state of each child: "none", "running", "killed"
                         \* (signalled, not yet reaped) or "exited"
    rc,                  \* exit code of each child that exited
    spawns,              \* how often each child was started
    initialized,         \* context.mark_node_initialized() was called
    trace,               \* the steps of start entered so far, in order
    now,                 \* the clock time.time() reads
    deadline,            \* deadline of wait_binlog_apply_ready
    tested_at,           \* the clock reading of the last test of the loop condition
    verdict,             \* outcome of the last check_binlog_apply_index_status
    last_output,         \* the output that verdict was computed from
    wait_result,         \* how wait_binlog_apply_ready ended
    sleeps,              \* calls of time.sleep so far
    queries,             \* status queries issued so far
    mpc,                 \* position of each invocation of initialize_local_mycnf
    lock,                \* holder of the flock on mycnf_path, 0 if free
    mycnf_file,          \* content of the file at mycnf_path
    buffer,              \* per invocation: chunks written but not yet flushed
    offset,              \* per invocation: position of its file descriptor
    override_file,       \* mycnf_override_path exists
    mods                 \* the invocations that modified mycnf_path, in order

driver_vars == <<pc, error, node_role, commit_index, params, owner, staged, marker_file,
                 mysql_bin_list, index_file, cluster_start_index, last_binlog,
                 end_index, end_term, init_metadata_cmd, apply_backup_cmd,
                 proc, rc, spawns, initialized, trace>>
wait_vars == <<now, deadline, tested_at, verdict, last_output, wait_result, sleeps, queries>>
mycnf_vars == <<mpc, lock, mycnf_file, buffer, offset, override_file, mods>>
vars == <<driver_vars, wait_vars, mycnf_vars>>

\* raise <exception> out of start (or out of the function run on its own)
Raise(e) == pc' = "failed" /\ error' = e

\* subprocess.Popen(...): the child runs
Popen(c) ==
    /\ proc' = [proc EXCEPT ![c] = "running"]
    /\ spawns' = [spawns EXCEPT ![c] = @ + 1]

\* the child ends with the exit code and is reaped (Popen.wait, Popen.__exit__)
Reap(c, code) ==
    /\ proc' = [proc EXCEPT ![c] = "exited"]
    /\ rc' = [rc EXCEPT ![c] = code]

ExitCodes == {0, 1}

(***************************************************************************)
(* The catch-up monitor: wait_binlog_apply_ready and the functions it      *)
(* calls.                                                                  *)
(***************************************************************************)

\* A row of information_schema.alisql_cluster_local as the columns that
\* row.split("\t") yields; the third from the last is the last-applied index.
\* The first and last columns differ from it so that reading another column
\* shows.
StatusRow(applied) == <<MaxIndex, applied, 0, MaxIndex>>
StatusRows ==
    {StatusRow(a) : a \in Indexes}
        \cup {<<0, 0>>}                 \* fewer than three columns
        \cup {StatusRow(NonNumeric)}    \* the column holds no number (NULL)

RECURSIVE SeqsUpTo(_, _)
\* the sequences over S of length at most n
SeqsUpTo(S, n) ==
    IF n = 0 THEN {<<>>}
    ELSE LET shorter == SeqsUpTo(S, n - 1)
         IN  shorter \cup {Append(q, x) : q \in shorter, x \in S}

\* What mysql.connect / cursor.execute / fetchall can do: raise, with a
\* message that is empty or one line without tabs, or return rows.
MysqlAnswers ==
    [raised : {TRUE}, text : {<<>>, <<<<NonNumeric>>>>}]
        \cup [raised : {FALSE}, text : SeqsUpTo(StatusRows, MaxRows)]

\* The answers explored when the monitor runs inside the driver: an
\* unreachable engine, an empty view, a lagging row and a caught-up view.
DriverAnswers ==
    {[raised |-> TRUE, text |-> <<<<NonNumeric>>>>],
     [raised |-> FALSE, text |-> <<>>]}
        \cup [raised : {FALSE},
              text : {<<StatusRow(a)>> : a \in {0, MaxIndex}}]

\* execute_mysqlcmd: (1, str(e)) when anything raised, else (0, rows joined
\* by "\n", each row its columns joined by "\t").  The text is kept as the
\* rows and columns that split("\n") and split("\t") give back.
execute_mysqlcmd(answer) ==
    IF answer.raised THEN <<1, answer.text>> ELSE <<0, answer.text>>

\* check_rows with the return True inside the loop: only the first row counts
check_rows_first_row_only(rows, end_log_index) ==
    IF rows = <<>> THEN "True"
    ELSE LET columns == Head(rows)
         IN  IF Len(columns) < 3 THEN "IndexError"
             ELSE IF columns[Len(columns) - 2] = NonNumeric THEN "ValueError"
             ELSE IF columns[Len(columns) - 2] < end_log_index THEN "False"
             ELSE "True"

RECURSIVE check_rows(_, _)
\* the for loop of check_binlog_apply_index_status
check_rows(rows, end_log_index) ==
    IF rows = <<>> THEN "True"
    ELSE LET columns == Head(rows)
         IN  IF Len(columns) < 3 THEN "IndexError"
             ELSE IF columns[Len(columns) - 2] = NonNumeric THEN "ValueError"
             ELSE IF columns[Len(columns) - 2] < end_log_index THEN "False"
             ELSE check_rows(Tail(rows), end_log_index)

\* check_binlog_apply_index_status: "True", "False" or the exception raised
check_binlog_apply_index_status(answer, end_log_index) ==
    LET output == execute_mysqlcmd(answer)[2]
    IN  IF output = <<>> THEN "Exception"
        ELSE check_rows(output, end_log_index)

\* lines 275-276: timeout = 48 * 60 * 60; deadline = time.time() + timeout
wait_binlog_apply_ready ==
    /\ pc = "wait_binlog_apply_ready"
    /\ deadline' = now + timeout
    /\ wait_result' = "running"
    /\ pc' = "wait_loop"
    /\ trace' = Append(trace, "wait_binlog_apply_ready")
    /\ UNCHANGED <<error, node_role, commit_index, params, owner, staged, marker_file,
                   mysql_bin_list, index_file, cluster_start_index, last_binlog,
                   end_index, end_term, init_metadata_cmd, apply_backup_cmd,
                   proc, rc, spawns, initialized>>
    /\ UNCHANGED <<now, tested_at, verdict, last_output, sleeps, queries>>
    /\ UNCHANGED mycnf_vars

\* wait_loop that tests the deadline only after the first poll
wait_loop_polls_first ==
    /\ pc = "wait_loop"
    /\ IF now < deadline \/ sleeps = 0
       THEN /\ pc' = "wait_sleep"
            /\ UNCHANGED <<error, wait_result>>
       ELSE /\ Raise("TimeoutError")
            /\ wait_result' = "TimeoutError"
    /\ tested_at' = now
    /\ UNCHANGED <<node_role, commit_index, params, owner, staged, marker_file,
                   mysql_bin_list, index_file, cluster_start_index, last_binlog,
                   end_index, end_term, init_metadata_cmd, apply_backup_cmd, proc,
                   rc, spawns, initialized, trace, now, deadline, verdict,
                   last_output, sleeps, queries, mpc, lock, mycnf_file, buffer,
                   offset, override_file, mods>>

\* wait_loop for `while True`: the deadline is never tested
wait_loop_never_times_out ==
    /\ pc = "wait_loop"
    /\ pc' = "wait_sleep"
    /\ tested_at' = now
/\ UNCHANGED <<error, node_role, commit_index, params, owner, staged,
               marker_file, mysql_bin_list, index_file, cluster_start_index,
               last_binlog, end_index, end_term, init_metadata_cmd,
               apply_backup_cmd, proc, rc, spawns, initialized, trace, now,
               deadline, verdict, last_output, wait_result, sleeps, queries,
               mpc, lock, mycnf_file, buffer, offset, override_file, mods>>

\* wait_loop for `while time.time() <= deadline`
wait_loop_polls_at_deadline ==
    /\ pc = "wait_loop"
    /\ IF now <= deadline
       THEN /\ pc' = "wait_sleep"
            /\ UNCHANGED <<error, wait_result>>
       ELSE /\ Raise("TimeoutError")
            /\ wait_result' = "TimeoutError"
    /\ tested_at' = now
/\ UNCHANGED <<node_role, commit_index, params, owner, staged, marker_file,
               mysql_bin_list, index_file, cluster_start_index, last_binlog,
               end_index, end_term, init_metadata_cmd, apply_backup_cmd, proc,
               rc, spawns, initialized, trace, now, deadline, verdict,
               last_output, sleeps, queries, mpc, lock, mycnf_file, buffer,
               offset, override_file, mods>>

\* line 277 and line 285: while time.time() < deadline ... raise TimeoutError
wait_loop ==
    /\ pc = "wait_loop"
    /\ IF now < deadline
       THEN /\ pc' = "wait_sleep"
            /\ UNCHANGED <<error, wait_result>>
       ELSE /\ Raise("TimeoutError")
            /\ wait_result' = "TimeoutError"
    /\ tested_at' = now
    /\ UNCHANGED <<node_role, commit_index, params, owner, staged, marker_file,
                   mysql_bin_list, index_file, cluster_start_index, last_binlog,
                   end_index, end_term, init_metadata_cmd, apply_backup_cmd,
                   proc, rc, spawns, initialized, trace>>
    /\ UNCHANGED <<now, deadline, verdict, last_output, sleeps, queries>>
    /\ UNCHANGED mycnf_vars

\* line 280: time.sleep(10)
wait_sleep ==
    /\ pc = "wait_sleep"
    /\ now' = now + SLEEP_SECONDS
    /\ sleeps' = sleeps + 1
    /\ pc' = "wait_check"
    /\ UNCHANGED <<error, node_role, commit_index, params, owner, staged, marker_file,
                   mysql_bin_list, index_file, cluster_start_index, last_binlog,
                   end_index, end_term, init_metadata_cmd, apply_backup_cmd,
                   proc, rc, spawns, initialized, trace>>
    /\ UNCHANGED <<deadline, tested_at, verdict, last_output, wait_result, queries>>
    /\ UNCHANGED mycnf_vars

\* wait_check with an except clause that does not catch what the check raises
wait_check_lets_errors_out(answers) ==
    /\ pc = "wait_check"
    /\ \E answer \in answers :
        /\ proc["engine"] # "running" => answer.raised
        /\ last_output' = execute_mysqlcmd(answer)[2]
        /\ verdict' = check_binlog_apply_index_status(answer, end_index)
    /\ queries' = queries + 1
    /\ IF verdict' = "True"
       THEN /\ pc' = "p_kill"
            /\ wait_result' = "returned"
            /\ UNCHANGED error
       ELSE IF verdict' = "False"
       THEN /\ pc' = "wait_loop"
            /\ UNCHANGED <<wait_result, error>>
       ELSE /\ Raise(verdict')
            /\ wait_result' = verdict'
    /\ UNCHANGED <<node_role, commit_index, params, owner, staged, marker_file,
                   mysql_bin_list, index_file, cluster_start_index, last_binlog,
                   end_index, end_term, init_metadata_cmd, apply_backup_cmd, proc,
                   rc, spawns, initialized, trace, now, deadline, tested_at, sleeps, mpc,
                   lock, mycnf_file, buffer, offset, override_file, mods>>

\* lines 281-284: the status query, its evaluation, return when it is True,
\* and the except clause that logs whatever was raised
wait_check(answers) ==
    /\ pc = "wait_check"
    /\ \E answer \in answers :
        \* no connection to an engine that is not running
        /\ proc["engine"] # "running" => answer.raised
        /\ last_output' = execute_mysqlcmd(answer)[2]
        /\ verdict' = check_binlog_apply_index_status(answer, end_index)
    /\ queries' = queries + 1
    /\ IF verdict' = "True"
       THEN /\ pc' = "p_kill"
            /\ wait_result' = "returned"
       ELSE /\ pc' = "wait_loop"
            /\ UNCHANGED wait_result
    /\ UNCHANGED <<error, node_role, commit_index, params, owner, staged, marker_file,
                   mysql_bin_list, index_file, cluster_start_index, last_binlog,
                   end_index, end_term, init_metadata_cmd, apply_backup_cmd,
                   proc, rc, spawns, initialized, trace>>
    /\ UNCHANGED <<now, deadline, tested_at, sleeps>>
    /\ UNCHANGED mycnf_vars

\* The clock moves on while the monitor runs (between any two of its steps).
clock_advances ==
    /\ pc \in {"wait_loop", "wait_sleep", "wait_check"}
    /\ now < MaxClock
    /\ now' = now + ClockStep
    /\ UNCHANGED driver_vars
    /\ UNCHANGED <<deadline, tested_at, verdict, last_output, wait_result, sleeps, queries>>
    /\ UNCHANGED mycnf_vars

\* The long-lived mysqld ends on its own (a crash, an abort in recovery).
engine_exits ==
    /\ proc["engine"] = "running"
    /\ pc \in {"wait_binlog_apply_ready", "wait_loop", "wait_sleep", "wait_check"}
    /\ \E code \in ExitCodes : Reap("engine", code)
    /\ UNCHANGED <<pc, error, node_role, commit_index, params, owner, staged, marker_file,
                   mysql_bin_list, index_file, cluster_start_index, last_binlog,
                   end_index, end_term, init_metadata_cmd, apply_backup_cmd,
                   spawns, initialized, trace>>
    /\ UNCHANGED wait_vars
    /\ UNCHANGED mycnf_vars

(***************************************************************************)
(* The config initializer: initialize_local_mycnf.  Invocation 1 is the    *)
(* one the driver calls; invocation 2 is another initializer on the same   *)
(* node.  The file at mycnf_path is a sequence of chunks, each naming the  *)
(* invocation and the place in its render it came from.                    *)
(***************************************************************************)
Invocations == {1, 2}
\* the chunks one render writes
RenderChunks == 2
\* a gap left by a write past the end of the file
Hole == <<0, 0>>
Chunk(i, k) == <<i, k>>
CompleteRender(i) == [k \in 1..RenderChunks |-> Chunk(i, k)]

\* write(2) of the chunks cs at offset o of the file
WriteAt(file, o, cs) ==
    LET last == IF Len(file) > o + Len(cs) THEN Len(file) ELSE o + Len(cs)
    IN  [k \in 1..last |->
            IF k > o /\ k <= o + Len(cs) THEN cs[k - o]
            ELSE IF k <= Len(file) THEN file[k]
            ELSE Hole]

\* line 188: open(context.mycnf_path, 'w') creates or truncates the file
mycnf_open(i) ==
    /\ mpc[i] = "open"
    /\ mycnf_file' = <<>>
    /\ mods' = Append(mods, i)
    /\ offset' = [offset EXCEPT ![i] = 0]
    /\ buffer' = [buffer EXCEPT ![i] = <<>>]
    /\ mpc' = [mpc EXCEPT ![i] = "flock"]
    /\ UNCHANGED <<pc, error, node_role, commit_index, params, owner, staged, marker_file,
                   mysql_bin_list, index_file, cluster_start_index, last_binlog,
                   end_index, end_term, init_metadata_cmd, apply_backup_cmd, proc,
                   rc, spawns, initialized, trace, now, deadline, tested_at, verdict,
                   last_output, wait_result, sleeps, queries, lock, override_file>>

\* line 190: fcntl.flock(mycnf_file.fileno(), fcntl.LOCK_EX) blocks while
\* another open file holds the lock
mycnf_flock(i) ==
    /\ mpc[i] = "flock"
    /\ lock = 0
    /\ lock' = i
    /\ mpc' = [mpc EXCEPT ![i] = "override"]
    /\ UNCHANGED <<pc, error, node_role, commit_index, params, owner, staged, marker_file,
                   mysql_bin_list, index_file, cluster_start_index, last_binlog,
                   end_index, end_term, init_metadata_cmd, apply_backup_cmd, proc,
                   rc, spawns, initialized, trace, now, deadline, tested_at, verdict,
                   last_output, wait_result, sleeps, queries, mycnf_file, buffer,
                   offset, override_file, mods>>

\* lines 183-184 and 193-197: regenerate the override layer when the reset
\* indicator is set or the override file does not exist;
\* context.mycnf_override_config() may raise
mycnf_override(i) ==
    /\ mpc[i] = "override"
    /\ \E force \in BOOLEAN, raises \in BOOLEAN :
        IF force \/ ~override_file
        THEN IF raises
             THEN /\ mpc' = [mpc EXCEPT ![i] = "unwind"]
                  /\ UNCHANGED override_file
             ELSE /\ override_file' = TRUE
                  /\ mpc' = [mpc EXCEPT ![i] = "render"]
        ELSE /\ mpc' = [mpc EXCEPT ![i] = "render"]
             /\ UNCHANGED override_file
    /\ UNCHANGED <<pc, error, node_role, commit_index, params, owner, staged, marker_file,
                   mysql_bin_list, index_file, cluster_start_index, last_binlog,
                   end_index, end_term, init_metadata_cmd, apply_backup_cmd, proc,
                   rc, spawns, initialized, trace, now, deadline, tested_at, verdict,
                   last_output, wait_result, sleeps, queries, lock, mycnf_file,
                   buffer, offset, mods>>

\* line 203: r.render(..., fp=mycnf_file) writes the next part of the
\* render; the text goes to the buffer of the Python file object
mycnf_render(i) ==
    /\ mpc[i] = "render"
    /\ LET written == offset[i] + Len(buffer[i])
       IN  /\ buffer' = [buffer EXCEPT ![i] = Append(@, Chunk(i, written + 1))]
           /\ mpc' = [mpc EXCEPT ![i] =
                        IF written + 1 = RenderChunks THEN "unlock" ELSE "render"]
    /\ UNCHANGED <<pc, error, node_role, commit_index, params, owner, staged, marker_file,
                   mysql_bin_list, index_file, cluster_start_index, last_binlog,
                   end_index, end_term, init_metadata_cmd, apply_backup_cmd, proc,
                   rc, spawns, initialized, trace, now, deadline, tested_at, verdict,
                   last_output, wait_result, sleeps, queries, lock, mycnf_file,
                   offset, override_file, mods>>

\* lines 199-203: reading the override layer or rendering raises
mycnf_render_raises(i) ==
    /\ mpc[i] = "render"
    /\ mpc' = [mpc EXCEPT ![i] = "unwind"]
    /\ UNCHANGED <<pc, error, node_role, commit_index, params, owner, staged, marker_file,
                   mysql_bin_list, index_file, cluster_start_index, last_binlog,
                   end_index, end_term, init_metadata_cmd, apply_backup_cmd, proc,
                   rc, spawns, initialized, trace, now, deadline, tested_at, verdict,
                   last_output, wait_result, sleeps, queries, lock, mycnf_file,
                   buffer, offset, override_file, mods>>

\* the file object writes its buffer to the file when the buffer is full,
\* which can happen at any write of the render
mycnf_flush(i) ==
    /\ mpc[i] \in {"render", "unlock"}
    /\ buffer[i] # <<>>
    /\ mycnf_file' = WriteAt(mycnf_file, offset[i], buffer[i])
    /\ mods' = Append(mods, i)
    /\ offset' = [offset EXCEPT ![i] = @ + Len(buffer[i])]
    /\ buffer' = [buffer EXCEPT ![i] = <<>>]
    /\ UNCHANGED <<pc, error, node_role, commit_index, params, owner, staged, marker_file,
                   mysql_bin_list, index_file, cluster_start_index, last_binlog,
                   end_index, end_term, init_metadata_cmd, apply_backup_cmd, proc,
                   rc, spawns, initialized, trace, now, deadline, tested_at, verdict,
                   last_output, wait_result, sleeps, queries, mpc, lock,
                   override_file>>

\* line 206: fcntl.flock(mycnf_file.fileno(), fcntl.LOCK_UN)
mycnf_unlock(i) ==
    /\ mpc[i] = "unlock"
    /\ lock' = IF lock = i THEN 0 ELSE lock
    /\ mpc' = [mpc EXCEPT ![i] = "close"]
    /\ UNCHANGED <<pc, error, node_role, commit_index, params, owner, staged, marker_file,
                   mysql_bin_list, index_file, cluster_start_index, last_binlog,
                   end_index, end_term, init_metadata_cmd, apply_backup_cmd, proc,
                   rc, spawns, initialized, trace, now, deadline, tested_at, verdict,
                   last_output, wait_result, sleeps, queries, mycnf_file, buffer,
                   offset, override_file, mods>>

\* the end of the with block (line 188): the file object flushes its buffer
\* and closes the descriptor, which drops a flock still held through it
CloseFile(i) ==
    /\ IF buffer[i] # <<>>
       THEN /\ mycnf_file' = WriteAt(mycnf_file, offset[i], buffer[i])
            /\ mods' = Append(mods, i)
       ELSE UNCHANGED <<mycnf_file, mods>>
    /\ offset' = [offset EXCEPT ![i] = @ + Len(buffer[i])]
    /\ buffer' = [buffer EXCEPT ![i] = <<>>]
    /\ lock' = IF lock = i THEN 0 ELSE lock

\* lines 206-207: leaving the with block normally; the driver goes on
mycnf_close(i) ==
    /\ mpc[i] = "close"
    /\ CloseFile(i)
    /\ mpc' = [mpc EXCEPT ![i] = "done"]
    /\ pc' = IF i = 1 THEN "apply_backup_file" ELSE pc
    /\ UNCHANGED <<error, node_role, commit_index, params, owner, staged, marker_file,
                   mysql_bin_list, index_file, cluster_start_index, last_binlog,
                   end_index, end_term, init_metadata_cmd, apply_backup_cmd, proc,
                   rc, spawns, initialized, trace, now, deadline, tested_at, verdict,
                   last_output, wait_result, sleeps, queries, override_file>>

\* mycnf_unwind for a file opened without the with block: the exception
\* leaves the function with the descriptor, and the lock on it, still open
mycnf_unwind_leaves_file_open(i) ==
    /\ mpc[i] = "unwind"
    /\ mpc' = [mpc EXCEPT ![i] = "raised"]
    /\ IF i = 1 THEN Raise("Exception") ELSE UNCHANGED <<pc, error>>
    /\ UNCHANGED <<node_role, commit_index, params, owner, staged, marker_file,
                   mysql_bin_list, index_file, cluster_start_index, last_binlog,
                   end_index, end_term, init_metadata_cmd, apply_backup_cmd, proc,
                   rc, spawns, initialized, trace, now, deadline, tested_at, verdict,
                   last_output, wait_result, sleeps, queries, override_file,
                   lock, mycnf_file, buffer, offset, mods>>

\* leaving the with block by an exception, which start does not catch
mycnf_unwind(i) ==
    /\ mpc[i] = "unwind"
    /\ CloseFile(i)
    /\ mpc' = [mpc EXCEPT ![i] = "raised"]
    /\ IF i = 1 THEN Raise("Exception") ELSE UNCHANGED <<pc, error>>
    /\ UNCHANGED <<node_role, commit_index, params, owner, staged, marker_file,
                   mysql_bin_list, index_file, cluster_start_index, last_binlog,
                   end_index, end_term, init_metadata_cmd, apply_backup_cmd, proc,
                   rc, spawns, initialized, trace, now, deadline, tested_at, verdict,
                   last_output, wait_result, sleeps, queries, override_file>>

initialize_local_mycnf_steps(i) ==
    \/ mycnf_open(i)
    \/ mycnf_flock(i)
    \/ mycnf_override(i)
    \/ mycnf_render(i)
    \/ mycnf_render_raises(i)
    \/ mycnf_flush(i)
    \/ mycnf_unlock(i)
    \/ mycnf_close(i)
    \/ mycnf_unwind(i)

(***************************************************************************)
(* The driver: start, and the functions it calls in the order it calls     *)
(* them.                                                                   *)
(***************************************************************************)

\* The descriptors read at lines 49-55: complete ones, with or without a
\* commit index, and ones that lack a single key.
Descriptors ==
    [present : {RequiredFields}, backupCommitIndex : {None, MaxIndex}]
        \cup [present : {RequiredFields \ {f} : f \in RequiredFields},
              backupCommitIndex : {None}]

\* the xtrabackup_binlog_info file a backup can hold
Markers ==
    {[exists |-> FALSE, tokens |-> <<>>],
     [exists |-> TRUE, tokens |-> <<>>],
     [exists |-> TRUE, tokens |-> <<MaxIndex>>],
     [exists |-> TRUE, tokens |-> <<MaxIndex, 0>>]}

\* the manifests explored inside the driver
DriverManifests ==
    {<<>>,
     <<Segment("mysql_bin", 1)>>,
     <<Segment("mysql_bin", 1), Segment("mysql_bin", MaxSeg), Segment("mysql_bin", 2)>>,
     <<Segment("seg", 1)>>}

\* core.backup_restore.utils.check_run_process: runs the command to its end
\* and raises when the exit code is not zero
check_run_process_raises(code) == code # 0

\* os.path.join(log_dir, binlog)
LogPath(binlog) == <<"log", binlog>>

\* start reading the descriptor with params.get(...), which raises nothing
start_tolerates_missing_field ==
    /\ pc = "start"
    /\ \E d \in Descriptors :
        /\ params' = d.present
        /\ commit_index' = d.backupCommitIndex
        /\ pc' = "role_check"
    /\ trace' = Append(trace, "start")
/\ UNCHANGED <<error, node_role, owner, staged, marker_file, mysql_bin_list,
               index_file, cluster_start_index, last_binlog, end_index,
               end_term, init_metadata_cmd, apply_backup_cmd, proc, rc,
               spawns, initialized, now, deadline, tested_at, verdict,
               last_output, wait_result, sleeps, queries, mpc, lock,
               mycnf_file, buffer, offset, override_file, mods>>

\* lines 47-56: read the descriptor; a missing key raises KeyError
start ==
    /\ pc = "start"
    /\ \E d \in Descriptors :
        /\ params' = d.present
        /\ IF d.present # RequiredFields
           THEN /\ Raise("KeyError")
                /\ UNCHANGED commit_index
           ELSE /\ commit_index' = d.backupCommitIndex
                /\ pc' = "role_check"
                /\ UNCHANGED error
    /\ trace' = Append(trace, "start")
    /\ UNCHANGED <<node_role, owner, staged, marker_file, mysql_bin_list,
                   index_file, cluster_start_index, last_binlog, end_index,
                   end_term, init_metadata_cmd, apply_backup_cmd, proc, rc,
                   spawns, initialized, now, deadline, tested_at, verdict, last_output,
                   wait_result, sleeps, queries, mpc, lock, mycnf_file, buffer,
                   offset, override_file, mods>>

\* role_check with the voter let through as well
role_check_lets_voter_restore ==
    /\ pc = "role_check"
    /\ \E r \in NodeRoles :
        /\ node_role' = r
        /\ pc' = IF r \notin {NODE_ROLE_CANDIDATE, NODE_ROLE_LEARNER, NODE_ROLE_VOTER}
                 THEN "done" ELSE "filestream_client"
    /\ trace' = Append(trace, "role_check")
    /\ UNCHANGED <<error, commit_index, params, owner, staged, marker_file,
                   mysql_bin_list, index_file, cluster_start_index, last_binlog,
                   end_index, end_term, init_metadata_cmd, apply_backup_cmd, proc,
                   rc, spawns, initialized, now, deadline, tested_at, verdict, last_output,
                   wait_result, sleeps, queries, mpc, lock, mycnf_file, buffer,
                   offset, override_file, mods>>

\* role_check comparing with the voter role where it should with the learner
role_check_takes_voter_for_learner ==
    /\ pc = "role_check"
    /\ \E r \in NodeRoles :
        /\ node_role' = r
        /\ pc' = IF r # NODE_ROLE_CANDIDATE /\ r # NODE_ROLE_VOTER
                 THEN "done" ELSE "filestream_client"
    /\ trace' = Append(trace, "role_check")
/\ UNCHANGED <<error, commit_index, params, owner, staged, marker_file,
               mysql_bin_list, index_file, cluster_start_index, last_binlog,
               end_index, end_term, init_metadata_cmd, apply_backup_cmd, proc,
               rc, spawns, initialized, now, deadline, tested_at, verdict,
               last_output, wait_result, sleeps, queries, mpc, lock,
               mycnf_file, buffer, offset, override_file, mods>>

\* lines 58-62: only a candidate or a learner restores
role_check ==
    /\ pc = "role_check"
    /\ \E r \in NodeRoles :
        /\ node_role' = r
        /\ pc' = IF r # NODE_ROLE_CANDIDATE /\ r # NODE_ROLE_LEARNER
                 THEN "done" ELSE "filestream_client"
    /\ trace' = Append(trace, "role_check")
    /\ UNCHANGED <<error, commit_index, params, owner, staged, marker_file,
                   mysql_bin_list, index_file, cluster_start_index, last_binlog,
                   end_index, end_term, init_metadata_cmd, apply_backup_cmd, proc,
                   rc, spawns, initialized, now, deadline, tested_at, verdict, last_output,
                   wait_result, sleeps, queries, mpc, lock, mycnf_file, buffer,
                   offset, override_file, mods>>

\* line 64: BackupStorage[str.upper(storage_name)] raises KeyError for a
\* storage name that is no member
filestream_client ==
    /\ pc = "filestream_client"
    /\ \E known \in BOOLEAN :
        IF known
        THEN pc' = "mkdir_needed" /\ UNCHANGED error
        ELSE Raise("KeyError")
    /\ trace' = Append(trace, "filestream_client")
    /\ UNCHANGED <<node_role, commit_index, params, owner, staged, marker_file,
                   mysql_bin_list, index_file, cluster_start_index, last_binlog,
                   end_index, end_term, init_metadata_cmd, apply_backup_cmd, proc,
                   rc, spawns, initialized, now, deadline, tested_at, verdict, last_output,
                   wait_result, sleeps, queries, mpc, lock, mycnf_file, buffer,
                   offset, override_file, mods>>

\* lines 110-124
mkdir_needed ==
    /\ pc = "mkdir_needed"
    /\ owner' = [p \in Paths |->
                    IF p \in {"data", "log", "tmp", "run"} THEN "mysql"
                    ELSE IF p = "restore" /\ owner[p] = "absent" THEN "root"
                    ELSE owner[p]]
    /\ pc' = "download_backup_file"
    /\ trace' = Append(trace, "mkdir_needed")
    /\ UNCHANGED <<error, node_role, commit_index, params, staged, marker_file,
                   mysql_bin_list, index_file, cluster_start_index, last_binlog,
                   end_index, end_term, init_metadata_cmd, apply_backup_cmd, proc,
                   rc, spawns, initialized, now, deadline, tested_at, verdict, last_output,
                   wait_result, sleeps, queries, mpc, lock, mycnf_file, buffer,
                   offset, override_file, mods>>

\* lines 127-130: the transfer client raises on any error
download_backup_file ==
    /\ pc = "download_backup_file"
    /\ \E ok \in BOOLEAN :
        IF ok
        THEN /\ staged' = staged \cup {BackupFile}
             /\ pc' = "decompress_backup_file"
             /\ UNCHANGED error
        ELSE /\ Raise("TransferError")
             /\ UNCHANGED staged
    /\ trace' = Append(trace, "download_backup_file")
    /\ UNCHANGED <<node_role, commit_index, params, owner, marker_file, mysql_bin_list,
                   index_file, cluster_start_index, last_binlog, end_index,
                   end_term, init_metadata_cmd, apply_backup_cmd, proc, rc,
                   spawns, initialized, now, deadline, tested_at, verdict, last_output,
                   wait_result, sleeps, queries, mpc, lock, mycnf_file, buffer,
                   offset, override_file, mods>>

\* lines 164-169: subprocess.Popen(decompress_cmd, shell=True, ...)
decompress_backup_file ==
    /\ pc = "decompress_backup_file"
    /\ Popen("xbstream")
    /\ pc' = "decompress_exit"
    /\ trace' = Append(trace, "decompress_backup_file")
    /\ UNCHANGED <<error, node_role, commit_index, params, owner, staged, marker_file,
                   mysql_bin_list, index_file, cluster_start_index, last_binlog,
                   end_index, end_term, init_metadata_cmd, apply_backup_cmd, rc,
                   initialized, now, deadline, tested_at, verdict, last_output, wait_result,
                   sleeps, queries, mpc, lock, mycnf_file, buffer, offset,
                   override_file, mods>>

\* decompress_exit followed by apply_backup_file, not by the config initializer
decompress_exit_then_apply ==
    /\ pc = "decompress_exit"
    /\ \E code \in ExitCodes : Reap("xbstream", code)
    /\ \E m \in Markers : marker_file' = m
    /\ owner' = [owner EXCEPT !["datatree"] = "root"]
    /\ pc' = "apply_backup_file"
    /\ UNCHANGED <<error, node_role, commit_index, params, staged, mysql_bin_list,
                   index_file, cluster_start_index, last_binlog, end_index,
                   end_term, init_metadata_cmd, apply_backup_cmd, spawns,
                   initialized, trace, now, deadline, tested_at, verdict, last_output,
                   wait_result, sleeps, queries, mpc, lock, mycnf_file, buffer,
                   offset, override_file, mods>>

\* lines 169-170: the with block ends, Popen.__exit__ waits for the child;
\* nothing reads its exit code.  The data directory holds what was unpacked.
decompress_exit ==
    /\ pc = "decompress_exit"
    /\ \E code \in ExitCodes : Reap("xbstream", code)
    /\ \E m \in Markers : marker_file' = m
    /\ owner' = [owner EXCEPT !["datatree"] = "root"]
    /\ pc' = "initialize_local_mycnf"
    /\ UNCHANGED <<error, node_role, commit_index, params, staged, mysql_bin_list,
                   index_file, cluster_start_index, last_binlog, end_index,
                   end_term, init_metadata_cmd, apply_backup_cmd, spawns,
                   initialized, trace, now, deadline, tested_at, verdict, last_output,
                   wait_result, sleeps, queries, mpc, lock, mycnf_file, buffer,
                   offset, override_file, mods>>

\* line 74: the call of initialize_local_mycnf
initialize_local_mycnf ==
    /\ pc = "initialize_local_mycnf"
    /\ mpc[1] = "idle"
    /\ mpc' = [mpc EXCEPT ![1] = "open"]
    /\ pc' = "in_initialize_local_mycnf"
    /\ trace' = Append(trace, "initialize_local_mycnf")
    /\ UNCHANGED <<error, node_role, commit_index, params, owner, staged, marker_file,
                   mysql_bin_list, index_file, cluster_start_index, last_binlog,
                   end_index, end_term, init_metadata_cmd, apply_backup_cmd, proc,
                   rc, spawns, initialized, now, deadline, tested_at, verdict, last_output,
                   wait_result, sleeps, queries, lock, mycnf_file, buffer, offset,
                   override_file, mods>>

\* lines 210-222: the command depends on the engine edition and stays ""
\* when the edition is neither; Popen starts a shell on it
apply_backup_file ==
    /\ pc = "apply_backup_file"
    /\ \E edition \in {"galaxy80", "xcluster57", "other"} :
        apply_backup_cmd' = IF edition = "galaxy80" THEN "--prepare"
                            ELSE IF edition = "xcluster57" THEN "--apply-log"
                            ELSE ""
    /\ Popen("xtrabackup")
    /\ pc' = "apply_exit"
    /\ trace' = Append(trace, "apply_backup_file")
    /\ UNCHANGED <<error, node_role, commit_index, params, owner, staged, marker_file,
                   mysql_bin_list, index_file, cluster_start_index, last_binlog,
                   end_index, end_term, init_metadata_cmd, rc, initialized, now,
                   deadline, tested_at, verdict, last_output, wait_result, sleeps, queries,
                   mpc, lock, mycnf_file, buffer, offset, override_file, mods>>

\* lines 222-223: Popen.__exit__ waits for the child; nothing reads its exit
\* code
apply_exit ==
    /\ pc = "apply_exit"
    /\ \E code \in ExitCodes : Reap("xtrabackup", code)
    /\ apply_backup_cmd' = ""
    /\ pc' = "download_binlogbackup_file"
    /\ UNCHANGED <<error, node_role, commit_index, params, owner, staged, marker_file,
                   mysql_bin_list, index_file, cluster_start_index, last_binlog,
                   end_index, end_term, init_metadata_cmd, spawns, initialized,
                   trace, now, deadline, tested_at, verdict, last_output, wait_result,
                   sleeps, queries, mpc, lock, mycnf_file, buffer, offset,
                   override_file, mods>>

\* lines 133-144: download the manifest, then every segment it names
download_binlogbackup_file(manifests) ==
    /\ pc = "download_binlogbackup_file"
    /\ \E ok \in BOOLEAN, list \in manifests :
        IF ok
        THEN /\ mysql_bin_list' = list
             /\ staged' = staged \cup {ManifestFile}
                             \cup {list[k] : k \in DOMAIN list}
             /\ pc' = "copy_binlog_to_new_path"
             /\ UNCHANGED error
        ELSE /\ Raise("TransferError")
             /\ UNCHANGED <<mysql_bin_list, staged>>
    /\ trace' = Append(trace, "download_binlogbackup_file")
    /\ UNCHANGED <<node_role, commit_index, params, owner, marker_file, index_file,
                   cluster_start_index, last_binlog, end_index, end_term,
                   init_metadata_cmd, apply_backup_cmd, proc, rc, spawns,
                   initialized, now, deadline, tested_at, verdict, last_output, wait_result,
                   sleeps, queries, mpc, lock, mycnf_file, buffer, offset,
                   override_file, mods>>

\* the '\n' written at line 158
NewLine == <<"\n", SegmentName("", 0, 0)>>

\* lines 153-158: f.write(new_binlog_path); f.write('\n') for each segment
\* of the manifest, in its order
write_index(list) ==
    [k \in 1..(2 * Len(list)) |->
        IF k % 2 = 1 THEN LogPath(list[(k + 1) \div 2]) ELSE NewLine]

RECURSIVE readlines(_)
\* f.readlines(): the text cut after each newline
readlines(text) ==
    IF text = <<>> THEN <<>>
    ELSE LET ends == {k \in DOMAIN text : text[k] = NewLine}
             cut == IF ends = {} THEN Len(text)
                    ELSE CHOOSE k \in ends : \A j \in ends : k <= j
         IN  <<SubSeq(text, 1, cut)>> \o readlines(SubSeq(text, cut + 1, Len(text)))

\* copy_binlog_to_new_path with the index file opened for appending
copy_binlog_appends_to_index ==
    /\ pc = "copy_binlog_to_new_path"
    /\ index_file' = index_file \o write_index(mysql_bin_list)
    /\ owner' = [owner EXCEPT !["segments"] =
                                IF mysql_bin_list # <<>> THEN "mysql" ELSE @,
                              !["index"] = "mysql"]
    /\ pc' = "get_xtrabackup_binlog_info"
    /\ trace' = Append(trace, "copy_binlog_to_new_path")
    /\ UNCHANGED <<error, node_role, commit_index, params, staged, marker_file,
                   mysql_bin_list, cluster_start_index, last_binlog, end_index,
                   end_term, init_metadata_cmd, apply_backup_cmd, proc, rc,
                   spawns, initialized, now, deadline, tested_at, verdict, last_output,
                   wait_result, sleeps, queries, mpc, lock, mycnf_file, buffer,
                   offset, override_file, mods>>

\* copy_binlog_to_new_path without the chown of mysql_bin.index
copy_binlog_leaves_index_to_root ==
    /\ pc = "copy_binlog_to_new_path"
    /\ index_file' = write_index(mysql_bin_list)
    /\ owner' = [owner EXCEPT !["segments"] =
                                IF mysql_bin_list # <<>> THEN "mysql" ELSE @,
                              !["index"] = IF @ = "absent" THEN "root" ELSE @]
    /\ pc' = "get_xtrabackup_binlog_info"
    /\ trace' = Append(trace, "copy_binlog_to_new_path")
    /\ UNCHANGED <<error, node_role, commit_index, params, staged, marker_file,
                   mysql_bin_list, cluster_start_index, last_binlog, end_index,
                   end_term, init_metadata_cmd, apply_backup_cmd, proc, rc,
                   spawns, initialized, now, deadline, tested_at, verdict, last_output,
                   wait_result, sleeps, queries, mpc, lock, mycnf_file, buffer,
                   offset, override_file, mods>>

\* lines 147-161: open mysql_bin.index with 'w+', which empties it, write
\* one path and a newline per segment, copy each segment into the log
\* directory and hand it and the index file to mysql
copy_binlog_to_new_path ==
    /\ pc = "copy_binlog_to_new_path"
    /\ index_file' = write_index(mysql_bin_list)
    /\ owner' = [owner EXCEPT !["segments"] =
                                IF mysql_bin_list # <<>> THEN "mysql" ELSE @,
                              !["index"] = "mysql"]
    /\ pc' = "get_xtrabackup_binlog_info"
    /\ trace' = Append(trace, "copy_binlog_to_new_path")
    /\ UNCHANGED <<error, node_role, commit_index, params, staged, marker_file,
                   mysql_bin_list, cluster_start_index, last_binlog, end_index,
                   end_term, init_metadata_cmd, apply_backup_cmd, proc, rc,
                   spawns, initialized, now, deadline, tested_at, verdict, last_output,
                   wait_result, sleeps, queries, mpc, lock, mycnf_file, buffer,
                   offset, override_file, mods>>

\* lines 262-271: the second token of the marker file, the first when there
\* is only one, None when the file is missing or empty
get_xtrabackup_binlog_info_from_instance_local(marker) ==
    IF ~marker.exists THEN None
    ELSE IF marker.tokens = <<>> THEN None
    ELSE IF Len(marker.tokens) >= 2 THEN marker.tokens[2]
    ELSE marker.tokens[1]

\* lines 82-83
get_xtrabackup_binlog_info ==
    /\ pc = "get_xtrabackup_binlog_info"
    /\ cluster_start_index' = get_xtrabackup_binlog_info_from_instance_local(marker_file)
    /\ pc' = "chown_data_dir"
    /\ trace' = Append(trace, "get_xtrabackup_binlog_info")
    /\ UNCHANGED <<error, node_role, commit_index, params, owner, staged, marker_file,
                   mysql_bin_list, index_file, last_binlog, end_index, end_term,
                   init_metadata_cmd, apply_backup_cmd, proc, rc, spawns,
                   initialized, now, deadline, tested_at, verdict, last_output, wait_result,
                   sleeps, queries, mpc, lock, mycnf_file, buffer, offset,
                   override_file, mods>>

\* lines 226-227: chown -R mysql:mysql <data dir>, by check_run_process
chown_data_dir ==
    /\ pc = "chown_data_dir"
    /\ Popen("chown")
    /\ pc' = "chown_exit"
    /\ trace' = Append(trace, "chown_data_dir")
    /\ UNCHANGED <<error, node_role, commit_index, params, owner, staged, marker_file,
                   mysql_bin_list, index_file, cluster_start_index, last_binlog,
                   end_index, end_term, init_metadata_cmd, apply_backup_cmd, rc,
                   initialized, now, deadline, tested_at, verdict, last_output, wait_result,
                   sleeps, queries, mpc, lock, mycnf_file, buffer, offset,
                   override_file, mods>>

chown_exit ==
    /\ pc = "chown_exit"
    /\ \E code \in ExitCodes :
        /\ Reap("chown", code)
        /\ IF check_run_process_raises(code)
           THEN /\ Raise("CalledProcessError")
                /\ UNCHANGED owner
           ELSE /\ owner' = [owner EXCEPT !["data"] = "mysql", !["datatree"] = "mysql"]
                /\ pc' = "show_last_and_first_binlog"
                /\ UNCHANGED error
    /\ UNCHANGED <<node_role, commit_index, params, staged, marker_file, mysql_bin_list,
                   index_file, cluster_start_index, last_binlog, end_index,
                   end_term, init_metadata_cmd, apply_backup_cmd, spawns,
                   initialized, trace, now, deadline, tested_at, verdict, last_output,
                   wait_result, sleeps, queries, mpc, lock, mycnf_file, buffer,
                   offset, override_file, mods>>

\* int(text_line.split('.')[-1]) of a line of mysql_bin.index: the number
\* in the digits after the last dot, the newline stripped
FileIndex(line) ==
    LET names == SelectSeq(line, LAMBDA t : t # NewLine)
    IN  names[Len(names)][2][2]

RECURSIVE last_file_index(_)
\* lines 349-353: the largest numeric suffix in mysql_bin.index, -1 when the
\* file has no line
last_file_index(lines) ==
    IF lines = <<>> THEN -1
    ELSE LET rest == last_file_index(Tail(lines))
             this == FileIndex(Head(lines))
         IN  IF this > rest THEN this ELSE rest

\* show_last_and_first_binlog taking the suffix of the last line of the
\* index file, not the largest one
show_last_line_of(lines) ==
    LogPath(Segment("mysql_bin",
                    IF lines = <<>> THEN -1 ELSE FileIndex(lines[Len(lines)])))

\* lines 346-360: "mysql_bin.%06d" % last_file_index, joined to the log
\* directory (first_binlog, which start does not use, is left out)
show_last_and_first_binlog_of(lines) ==
    LogPath(Segment("mysql_bin", last_file_index(lines)))

\* line 87
show_last_and_first_binlog ==
    /\ pc = "show_last_and_first_binlog"
    /\ last_binlog' = show_last_and_first_binlog_of(readlines(index_file))
    /\ pc' = "xdb_show_binlog_index"
    /\ trace' = Append(trace, "show_last_and_first_binlog")
    /\ UNCHANGED <<error, node_role, commit_index, params, owner, staged, marker_file,
                   mysql_bin_list, index_file, cluster_start_index, end_index,
                   end_term, init_metadata_cmd, apply_backup_cmd, proc, rc,
                   spawns, initialized, now, deadline, tested_at, verdict, last_output,
                   wait_result, sleeps, queries, mpc, lock, mycnf_file, buffer,
                   offset, override_file, mods>>

\* What mysqlbinlogtailor --show-index-info prints, as the list of its
\* index:term pairs: [start_index:start_term, end_index:end_term] for a
\* segment it can read, nothing otherwise.
ToolOutputs(path) ==
    IF \E k \in DOMAIN index_file : index_file[k] = path
    THEN {<<<<0, 1>>, <<i, t>>>> : i \in Indexes, t \in Terms} \cup {<<>>}
    ELSE {<<>>}

\* lines 363-384: run the tool to its end, then take the second pair of its
\* output; temp.split(',')[1] raises IndexError when there is none
xdb_show_binlog_index ==
    /\ pc = "xdb_show_binlog_index"
    /\ proc' = [proc EXCEPT !["mysqlbinlogtailor"] = "exited"]
    /\ spawns' = [spawns EXCEPT !["mysqlbinlogtailor"] = @ + 1]
    /\ \E index_info \in ToolOutputs(last_binlog) :
        IF Len(index_info) < 2
        THEN /\ Raise("IndexError")
             /\ UNCHANGED <<end_index, end_term>>
        ELSE /\ end_index' = index_info[2][1]
             /\ end_term' = index_info[2][2]
             /\ pc' = "init_mysqld_metadata"
             /\ UNCHANGED error
    /\ trace' = Append(trace, "xdb_show_binlog_index")
    /\ UNCHANGED <<node_role, commit_index, params, owner, staged, marker_file,
                   mysql_bin_list, index_file, cluster_start_index, last_binlog,
                   init_metadata_cmd, apply_backup_cmd, rc, initialized, now,
                   deadline, tested_at, verdict, last_output, wait_result, sleeps, queries,
                   mpc, lock, mycnf_file, buffer, offset, override_file, mods>>

\* init_mysqld_metadata taking the commit index whenever the descriptor has
\* one, whatever the role
init_mysqld_metadata_prefers_commit_index ==
    /\ pc = "init_mysqld_metadata"
    /\ LET start_index == IF node_role = NODE_ROLE_VOTER \/ commit_index # None
                          THEN commit_index ELSE cluster_start_index
       IN  IF node_role = NODE_ROLE_VOTER /\ start_index = None
           THEN /\ Raise("Exception")
                /\ UNCHANGED <<init_metadata_cmd, proc, spawns>>
           ELSE /\ init_metadata_cmd' =
                       [cluster_current_term |-> end_term,
                        cluster_force_recover_index |-> start_index,
                        cluster_start_index |-> start_index]
                /\ Popen("forceinit")
                /\ pc' = "init_mysqld_metadata_exit"
                /\ UNCHANGED error
    /\ trace' = Append(trace, "init_mysqld_metadata")
/\ UNCHANGED <<node_role, commit_index, params, owner, staged, marker_file,
               mysql_bin_list, index_file, cluster_start_index, last_binlog,
               end_index, end_term, apply_backup_cmd, rc, initialized, now,
               deadline, tested_at, verdict, last_output, wait_result, sleeps,
               queries, mpc, lock, mycnf_file, buffer, offset, override_file,
               mods>>

\* init_mysqld_metadata testing the recovered index, not the commit index
init_mysqld_metadata_tests_recovered_index ==
    /\ pc = "init_mysqld_metadata"
    /\ LET start_index == IF node_role = NODE_ROLE_VOTER
                          THEN commit_index ELSE cluster_start_index
       IN  IF node_role = NODE_ROLE_VOTER /\ cluster_start_index = None
           THEN /\ Raise("Exception")
                /\ UNCHANGED <<init_metadata_cmd, proc, spawns>>
           ELSE /\ init_metadata_cmd' =
                       [cluster_current_term |-> end_term,
                        cluster_force_recover_index |-> start_index,
                        cluster_start_index |-> start_index]
                /\ Popen("forceinit")
                /\ pc' = "init_mysqld_metadata_exit"
                /\ UNCHANGED error
    /\ trace' = Append(trace, "init_mysqld_metadata")
    /\ UNCHANGED <<node_role, commit_index, params, owner, staged, marker_file,
                   mysql_bin_list, index_file, cluster_start_index, last_binlog,
                   end_index, end_term, apply_backup_cmd, rc, initialized, now,
                   deadline, tested_at, verdict, last_output, wait_result, sleeps, queries,
                   mpc, lock, mycnf_file, buffer, offset, override_file, mods>>

\* lines 230-247: a voter starts from the commit index of the descriptor and
\* needs one; then mysqld is started with the force-init flags
init_mysqld_metadata ==
    /\ pc = "init_mysqld_metadata"
    /\ LET start_index == IF node_role = NODE_ROLE_VOTER
                          THEN commit_index ELSE cluster_start_index
       IN  IF node_role = NODE_ROLE_VOTER /\ start_index = None
           THEN /\ Raise("Exception")
                /\ UNCHANGED <<init_metadata_cmd, proc, spawns>>
           ELSE /\ init_metadata_cmd' =
                       [cluster_current_term |-> end_term,
                        cluster_force_recover_index |-> start_index,
                        cluster_start_index |-> start_index]
                /\ Popen("forceinit")
                /\ pc' = "init_mysqld_metadata_exit"
                /\ UNCHANGED error
    /\ trace' = Append(trace, "init_mysqld_metadata")
    /\ UNCHANGED <<node_role, commit_index, params, owner, staged, marker_file,
                   mysql_bin_list, index_file, cluster_start_index, last_binlog,
                   end_index, end_term, apply_backup_cmd, rc, initialized, now,
                   deadline, tested_at, verdict, last_output, wait_result, sleeps, queries,
                   mpc, lock, mycnf_file, buffer, offset, override_file, mods>>

\* line 248: check_run_process waits for mysqld and raises on a non-zero exit
init_mysqld_metadata_exit ==
    /\ pc = "init_mysqld_metadata_exit"
    /\ \E code \in ExitCodes :
        /\ Reap("forceinit", code)
        /\ IF check_run_process_raises(code)
           THEN Raise("CalledProcessError")
           ELSE pc' = "popen_mysqld" /\ UNCHANGED error
    /\ UNCHANGED <<node_role, commit_index, params, owner, staged, marker_file,
                   mysql_bin_list, index_file, cluster_start_index, last_binlog,
                   end_index, end_term, init_metadata_cmd, apply_backup_cmd,
                   spawns, initialized, trace, now, deadline, tested_at, verdict,
                   last_output, wait_result, sleeps, queries, mpc, lock,
                   mycnf_file, buffer, offset, override_file, mods>>

\* lines 94-98: p = subprocess.Popen([mysqld, ...]), the long-lived engine
popen_mysqld ==
    /\ pc = "popen_mysqld"
    /\ Popen("engine")
    /\ pc' = "wait_binlog_apply_ready"
    /\ trace' = Append(trace, "popen_mysqld")
    /\ UNCHANGED <<error, node_role, commit_index, params, owner, staged, marker_file,
                   mysql_bin_list, index_file, cluster_start_index, last_binlog,
                   end_index, end_term, init_metadata_cmd, apply_backup_cmd, rc,
                   initialized, now, deadline, tested_at, verdict, last_output, wait_result,
                   sleeps, queries, mpc, lock, mycnf_file, buffer, offset,
                   override_file, mods>>

\* line 102: p.kill() sends SIGKILL; no effect on a child that has ended
p_kill ==
    /\ pc = "p_kill"
    /\ proc' = [proc EXCEPT !["engine"] = IF @ = "running" THEN "killed" ELSE @]
    /\ pc' = "p_wait"
    /\ trace' = Append(trace, "p_kill")
    /\ UNCHANGED <<error, node_role, commit_index, params, owner, staged, marker_file,
                   mysql_bin_list, index_file, cluster_start_index, last_binlog,
                   end_index, end_term, init_metadata_cmd, apply_backup_cmd, rc,
                   spawns, initialized, now, deadline, tested_at, verdict, last_output,
                   wait_result, sleeps, queries, mpc, lock, mycnf_file, buffer,
                   offset, override_file, mods>>

\* p_wait that does not wait for the engine to end
p_wait_returns_at_once ==
    /\ pc = "p_wait"
    /\ pc' = "sync_cluster_metadata"
    /\ UNCHANGED <<error, node_role, commit_index, params, owner, staged, marker_file,
                   mysql_bin_list, index_file, cluster_start_index, last_binlog,
                   end_index, end_term, init_metadata_cmd, apply_backup_cmd, proc,
                   rc, spawns, initialized, trace, now, deadline, tested_at, verdict,
                   last_output, wait_result, sleeps, queries, mpc, lock,
                   mycnf_file, buffer, offset, override_file, mods>>

\* line 103: p.wait() blocks until the child has ended, here by the signal
\* or earlier on its own, and reaps it
p_wait ==
    /\ pc = "p_wait"
    /\ proc["engine"] \in {"killed", "exited"}
    /\ IF proc["engine"] = "killed"
       THEN Reap("engine", -9)
       ELSE UNCHANGED <<proc, rc>>
    /\ pc' = "sync_cluster_metadata"
    /\ UNCHANGED <<error, node_role, commit_index, params, owner, staged, marker_file,
                   mysql_bin_list, index_file, cluster_start_index, last_binlog,
                   end_index, end_term, init_metadata_cmd, apply_backup_cmd,
                   spawns, initialized, trace, now, deadline, tested_at, verdict,
                   last_output, wait_result, sleeps, queries, mpc, lock,
                   mycnf_file, buffer, offset, override_file, mods>>

\* lines 252-258: mysqld is started with the node's own cluster info
sync_cluster_metadata ==
    /\ pc = "sync_cluster_metadata"
    /\ Popen("sync")
    /\ pc' = "sync_cluster_metadata_exit"
    /\ trace' = Append(trace, "sync_cluster_metadata")
    /\ UNCHANGED <<error, node_role, commit_index, params, owner, staged, marker_file,
                   mysql_bin_list, index_file, cluster_start_index, last_binlog,
                   end_index, end_term, init_metadata_cmd, apply_backup_cmd, rc,
                   initialized, now, deadline, tested_at, verdict, last_output, wait_result,
                   sleeps, queries, mpc, lock, mycnf_file, buffer, offset,
                   override_file, mods>>

\* line 259: check_run_process waits for mysqld and raises on a non-zero exit
sync_cluster_metadata_exit ==
    /\ pc = "sync_cluster_metadata_exit"
    /\ \E code \in ExitCodes :
        /\ Reap("sync", code)
        /\ IF check_run_process_raises(code)
           THEN Raise("CalledProcessError")
           ELSE pc' = "mark_node_initialized" /\ UNCHANGED error
    /\ UNCHANGED <<node_role, commit_index, params, owner, staged, marker_file,
                   mysql_bin_list, index_file, cluster_start_index, last_binlog,
                   end_index, end_term, init_metadata_cmd, apply_backup_cmd,
                   spawns, initialized, trace, now, deadline, tested_at, verdict,
                   last_output, wait_result, sleeps, queries, mpc, lock,
                   mycnf_file, buffer, offset, override_file, mods>>

\* line 107: context.mark_node_initialized(), then start returns
mark_node_initialized ==
    /\ pc = "mark_node_initialized"
    /\ initialized' = TRUE
    /\ pc' = "done"
    /\ trace' = Append(trace, "mark_node_initialized")
    /\ UNCHANGED <<error, node_role, commit_index, params, owner, staged, marker_file,
                   mysql_bin_list, index_file, cluster_start_index, last_binlog,
                   end_index, end_term, init_metadata_cmd, apply_backup_cmd, proc,
                   rc, spawns, now, deadline, tested_at, verdict, last_output, wait_result,
                   sleeps, queries, mpc, lock, mycnf_file, buffer, offset,
                   override_file, mods>>

(***************************************************************************)
(* Specifications.                                                         *)
(***************************************************************************)
NoMarker == [exists |-> FALSE, tokens |-> <<>>]
NoCmd == [cluster_current_term |-> None,
          cluster_force_recover_index |-> None,
          cluster_start_index |-> None]

\* the state before anything ran, but for pc and the inputs of the function
\* that is run
Blank ==
    /\ error = ""
    /\ staged = {}
    /\ mysql_bin_list = <<>>
    /\ index_file = <<>>
    /\ last_binlog = LogPath(Segment("", 0))
    /\ init_metadata_cmd = NoCmd
    /\ apply_backup_cmd = ""
    /\ rc = [c \in Children |-> 0]
    /\ spawns = [c \in Children |-> 0]
    /\ initialized = FALSE
    /\ trace = <<>>
    /\ now = 0
    /\ deadline = 0
    /\ tested_at = None
    /\ verdict = "none"
    /\ last_output = <<>>
    /\ wait_result = "none"
    /\ sleeps = 0
    /\ queries = 0
    /\ lock = 0
    /\ mycnf_file = <<>>
    /\ buffer = [i \in Invocations |-> <<>>]
    /\ offset = [i \in Invocations |-> 0]
    /\ mods = <<>>

\* the run of start on a node whose directories exist already or do not
Init ==
    /\ Blank
    /\ pc = "start"
    /\ node_role = ""
    /\ commit_index = None
    /\ marker_file = NoMarker
    /\ params = {}
    /\ cluster_start_index = None
    /\ end_index = 0
    /\ end_term = 0
    /\ proc = [c \in Children |-> "none"]
    /\ owner \in {[p \in Paths |-> "absent"],
                  [p \in Paths |-> IF p \in RestoreDirs THEN "root" ELSE "absent"]}
    /\ override_file \in BOOLEAN
    /\ mpc = [i \in Invocations |-> "idle"]

Next ==
    \/ start
    \/ role_check
    \/ filestream_client
    \/ mkdir_needed
    \/ download_backup_file
    \/ decompress_backup_file
    \/ decompress_exit
    \/ initialize_local_mycnf
    \/ initialize_local_mycnf_steps(1)
    \/ apply_backup_file
    \/ apply_exit
    \/ download_binlogbackup_file(DriverManifests)
    \/ copy_binlog_to_new_path
    \/ get_xtrabackup_binlog_info
    \/ chown_data_dir
    \/ chown_exit
    \/ show_last_and_first_binlog
    \/ xdb_show_binlog_index
    \/ init_mysqld_metadata
    \/ init_mysqld_metadata_exit
    \/ popen_mysqld
    \/ wait_binlog_apply_ready
    \/ wait_loop
    \/ wait_sleep
    \/ wait_check(DriverAnswers)
    \/ clock_advances
    \/ engine_exits
    \/ p_kill
    \/ p_wait
    \/ sync_cluster_metadata
    \/ sync_cluster_metadata_exit
    \/ mark_node_initialized

Spec == Init /\ [][Next]_vars

\* wait_binlog_apply_ready run on its own against a started engine, with
\* every answer the status query can give
InitMonitor ==
    /\ Blank
    /\ pc = "wait_binlog_apply_ready"
    /\ node_role = NODE_ROLE_LEARNER
    /\ commit_index = None
    /\ marker_file = NoMarker
    /\ params = RequiredFields
    /\ cluster_start_index = None
    /\ end_index \in Indexes
    /\ end_term = 1
    /\ proc = [c \in Children |-> IF c = "engine" THEN "running" ELSE "none"]
    /\ owner = [p \in Paths |-> "mysql"]
    /\ override_file = TRUE
    /\ mpc = [i \in Invocations |-> "idle"]

NextMonitor ==
    \/ wait_binlog_apply_ready
    \/ wait_loop
    \/ wait_sleep
    \/ wait_check(MysqlAnswers)
    \/ clock_advances
    \/ engine_exits

SpecMonitor == InitMonitor /\ [][NextMonitor]_vars

\* every xtrabackup_binlog_info file of up to two tokens, and none
RecoveredMarkers ==
    {NoMarker} \cup [exists : {TRUE}, tokens : SeqsUpTo(Indexes, 2)]

\* init_mysqld_metadata called with any role and commit index, and with the
\* index recovered (line 82) from any marker file, followed by the start of
\* the engine as in start
InitForceInit ==
    /\ Blank
    /\ pc = "init_mysqld_metadata"
    /\ node_role \in NodeRoles
    /\ commit_index \in {None} \cup Indexes
    /\ params = RequiredFields
    /\ marker_file \in RecoveredMarkers
    /\ cluster_start_index = get_xtrabackup_binlog_info_from_instance_local(marker_file)
    /\ end_index = 0
    /\ end_term \in Terms
    /\ proc = [c \in Children |-> "none"]
    /\ owner = [p \in Paths |-> "mysql"]
    /\ override_file = TRUE
    /\ mpc = [i \in Invocations |-> "idle"]

NextForceInit ==
    \/ init_mysqld_metadata
    \/ init_mysqld_metadata_exit
    \/ popen_mysqld

SpecForceInit == InitForceInit /\ [][NextForceInit]_vars

\* two initializers of the same node running initialize_local_mycnf
InitMycnf ==
    /\ Blank
    /\ pc = "in_initialize_local_mycnf"
    /\ node_role = NODE_ROLE_LEARNER
    /\ commit_index = None
    /\ marker_file = NoMarker
    /\ params = RequiredFields
    /\ cluster_start_index = None
    /\ end_index = 0
    /\ end_term = 0
    /\ proc = [c \in Children |-> "none"]
    /\ owner = [p \in Paths |-> "mysql"]
    /\ override_file \in BOOLEAN
    /\ mpc = [i \in Invocations |-> "open"]

NextMycnf == \E i \in Invocations : initialize_local_mycnf_steps(i)

SpecMycnf == InitMycnf /\ [][NextMycnf]_vars

(***************************************************************************)
(* Properties.                                                             *)
(***************************************************************************)
Range(s) == {s[k] : k \in DOMAIN s}
IsPrefix(s, t) == Len(s) <= Len(t) /\ \A k \in 1..Len(s) : s[k] = t[k]
Restoring == node_role \in {NODE_ROLE_CANDIDATE, NODE_ROLE_LEARNER}
Ended == pc \in {"done", "failed"}
\* the child has been started and has not been reaped
Alive(c) == proc[c] \in {"running", "killed"}

\* the invocations of mods, without repetitions that follow each other
RECURSIVE Turns(_)
Turns(s) ==
    IF Len(s) <= 1 THEN s
    ELSE LET before == Turns(SubSeq(s, 1, Len(s) - 1))
         IN  IF before[Len(before)] = s[Len(s)] THEN before
             ELSE Append(before, s[Len(s)])

\* C1: two concurrent invocations of initialize_local_mycnf never interleave
\* their modifications of the configuration file (the truncation by open
\* included): all modifications by one come before all modifications by the
\* other, and once both have ended the file is the complete render of one of
\* them.
C1_WritesNeverInterleave ==
    /\ Len(Turns(mods)) <= Cardinality(Range(mods))
    /\ (\A i \in Invocations : mpc[i] = "done")
          => \E i \in Invocations : mycnf_file = CompleteRender(i)

\* nothing was created, downloaded, started, rendered or marked
NoSideEffects ==
    /\ staged = {}
    /\ \A c \in Children : spawns[c] = 0 /\ proc[c] = "none"
    /\ \A p \in Paths : owner[p] # "mysql"
    /\ Range(trace) \subseteq {"start", "role_check"}
    /\ mpc[1] = "idle" /\ mods = <<>> /\ mycnf_file = <<>>
    /\ index_file = <<>>
    /\ ~initialized

\* C2: for every role that is neither candidate nor learner (voter
\* included) start ends successfully at the role check and performs no
\* phase: nothing is created, downloaded, spawned, rendered or marked.
C2_OtherRolesDoNothing ==
    (node_role # "" /\ ~Restoring) => (pc = "done" /\ error = "" /\ NoSideEffects)

C2_Witness == node_role = NODE_ROLE_VOTER /\ pc = "done" /\ commit_index = None

\* C3: a non-zero exit of the archive extraction or of the prepare/apply-log
\* pass is fatal: the run has failed at that step, and no later step was
\* entered.
C3_NonZeroExitIsFatal ==
    /\ (proc["xbstream"] = "exited" /\ rc["xbstream"] # 0)
          => (pc = "failed" /\ trace[Len(trace)] = "decompress_backup_file")
    /\ (proc["xtrabackup"] = "exited" /\ rc["xtrabackup"] # 0)
          => (pc = "failed" /\ trace[Len(trace)] = "apply_backup_file")

\* a row of the status view whose last-applied index is a
Reached(row, target) == \E a \in Indexes : row = StatusRow(a) /\ a >= target
Lagging(row, target) == \E a \in Indexes : row = StatusRow(a) /\ a < target
Exceptions == {"Exception", "IndexError", "ValueError"}

\* C4: a poll reports ready only if the status view returned at least one
\* row and every row has a last-applied index >= the target; a row below the
\* target makes the poll not ready, and the monitor has not returned.
C4_ReadyOnlyIfEveryRowReached ==
    /\ verdict = "True" =>
          /\ last_output # <<>>
          /\ \A k \in DOMAIN last_output : Reached(last_output[k], end_index)
    /\ wait_result = "returned" => verdict = "True"
    /\ (verdict # "none" /\ \E k \in DOMAIN last_output : Lagging(last_output[k], end_index))
          => (verdict # "True" /\ wait_result \in {"running", "TimeoutError"})

C4_Witness ==
    /\ wait_result = "returned"
    /\ Len(last_output) >= 2
    /\ end_index > 0

\* C5: a status query that fails or returns no rows never ends the monitor:
\* after it the monitor is still running, or has timed out with the deadline
\* passed; the only error wait_binlog_apply_ready ends with is TimeoutError.
C5_OnlyTimeoutEndsTheMonitor ==
    /\ wait_result \in {"none", "running", "returned", "TimeoutError"}
    /\ error \in {"", "TimeoutError"}
    /\ verdict \in Exceptions => wait_result \in {"running", "TimeoutError"}
    /\ wait_result = "TimeoutError" => now >= deadline
    /\ (verdict \in Exceptions /\ now < deadline) => wait_result = "running"

C5_Witness ==
    /\ verdict \in Exceptions
    /\ pc = "wait_sleep"
    /\ queries >= 1

\* C6: when the deadline has passed at the first test of the loop, the
\* monitor raises TimeoutError without a sleep, a status query or an
\* evaluation of a row.
C6_PastDeadlineTimesOutAtOnce ==
    [][(pc = "wait_loop" /\ sleeps = 0 /\ now >= deadline /\ pc' # pc)
         => /\ pc' = "failed"
            /\ error' = "TimeoutError"
            /\ wait_result' = "TimeoutError"
            /\ sleeps' = 0 /\ queries' = 0 /\ verdict' = "none"]_vars

C6_Witness ==
    /\ wait_result = "TimeoutError"
    /\ sleeps = 0
    /\ queries = 0

\* C7: the driver never ends, in success or in failure, while the engine
\* process it spawned is still running.
C7_EngineNeverOutlivesTheRun ==
    Ended => ~Alive("engine")

\* C8: no two mysqld processes of the driver are alive together; the engine
\* is started only after force-init has run to its end, sync only after the
\* engine has exited; a run of a candidate or learner that reaches Done has
\* run force-init, the engine and sync exactly once each.
C8_MetadataReconciledOnceInOrder ==
    /\ Cardinality({c \in MysqldChildren : Alive(c)}) <= 1
    /\ spawns["engine"] > 0 => (proc["forceinit"] = "exited" /\ rc["forceinit"] = 0)
    /\ spawns["sync"] > 0 => (proc["engine"] = "exited" /\ spawns["forceinit"] = 1)
    /\ \A c \in MysqldChildren : spawns[c] <= 1
    /\ (pc = "done" /\ Restoring) =>
          \A c \in MysqldChildren : spawns[c] = 1 /\ proc[c] = "exited"

C8_Witness ==
    /\ pc = "done"
    /\ Restoring
    /\ spawns["sync"] = 1
    /\ rc["engine"] = -9

\* the phase of section 4.7 a step of start belongs to, "" for the steps
\* between the phases
PhaseOf(step) ==
    CASE step = "role_check" -> "RoleCheck"
      [] step = "download_backup_file" -> "Fetching"
      [] step \in {"decompress_backup_file", "apply_backup_file"} -> "Preparing"
      [] step = "initialize_local_mycnf" -> "Configuring"
      [] step \in {"download_binlogbackup_file", "copy_binlog_to_new_path"} -> "ImportingLogs"
      [] step = "init_mysqld_metadata" -> "ForceInitMeta"
      [] step = "popen_mysqld" -> "EngineStarting"
      [] step = "wait_binlog_apply_ready" -> "CatchingUp"
      [] step = "p_kill" -> "EngineStopping"
      [] step = "sync_cluster_metadata" -> "SyncingMeta"
      [] step = "mark_node_initialized" -> "Done"
      [] OTHER -> ""

\* the phases entered, in order, each once per entry
RECURSIVE PhasesOf(_)
PhasesOf(t) ==
    IF t = <<>> THEN <<>>
    ELSE LET before == PhasesOf(SubSeq(t, 1, Len(t) - 1))
             phase == PhaseOf(t[Len(t)])
         IN  IF phase = "" \/ (before # <<>> /\ before[Len(before)] = phase)
             THEN before
             ELSE Append(before, phase)

\* the steps of start that belong to a phase, in order
RECURSIVE StepsOf(_)
StepsOf(t) ==
    IF t = <<>> THEN <<>>
    ELSE LET before == StepsOf(SubSeq(t, 1, Len(t) - 1))
         IN  IF PhaseOf(t[Len(t)]) = "" THEN before ELSE Append(before, t[Len(t)])

PhaseOrder ==
    <<"RoleCheck", "Fetching", "Preparing", "Configuring", "ImportingLogs",
      "ForceInitMeta", "EngineStarting", "CatchingUp", "EngineStopping",
      "SyncingMeta", "Done">>

StepOrder ==
    <<"role_check", "download_backup_file", "decompress_backup_file",
      "initialize_local_mycnf", "apply_backup_file",
      "download_binlogbackup_file", "copy_binlog_to_new_path",
      "init_mysqld_metadata", "popen_mysqld", "wait_binlog_apply_ready",
      "p_kill", "sync_cluster_metadata", "mark_node_initialized">>

\* a child that start waits for runs only while start waits for it, the
\* config initializer runs only inside its call, and the engine runs only
\* from its start to the end of catch-up and of its stop
OneStepAtATime ==
    /\ proc["xbstream"] = "running" => pc = "decompress_exit"
    /\ proc["xtrabackup"] = "running" => pc = "apply_exit"
    /\ proc["chown"] = "running" => pc = "chown_exit"
    /\ proc["mysqlbinlogtailor"] # "running"
    /\ proc["forceinit"] = "running" => pc = "init_mysqld_metadata_exit"
    /\ proc["sync"] = "running" => pc = "sync_cluster_metadata_exit"
    /\ mpc[1] \notin {"idle", "done", "raised"} => pc = "in_initialize_local_mycnf"
    /\ Alive("engine") =>
          pc \in {"wait_binlog_apply_ready", "wait_loop", "wait_sleep",
                  "wait_check", "p_kill", "p_wait", "failed"}

\* C9 as stated: the phases are entered in the order RoleCheck, Fetching,
\* Preparing, Configuring, ImportingLogs, ForceInitMeta, EngineStarting,
\* CatchingUp, EngineStopping, SyncingMeta, Done, each after the previous
\* one has finished, with the whole of Preparing (extraction and
\* prepare/apply-log) before Configuring.
C9_PhasesInStatedOrder ==
    /\ IsPrefix(PhasesOf(trace), PhaseOrder)
    /\ OneStepAtATime

\* C9 amended: the steps are entered in the order role check, fetch,
\* archive extraction, config initializer, prepare/apply-log, log import,
\* force-init, engine start, catch-up, engine stop, sync, mark initialized,
\* each after the previous one has finished; the config initializer runs
\* after the extraction and before the prepare/apply-log pass.
C9_StepsInCodeOrder ==
    /\ IsPrefix(StepsOf(trace), StepOrder)
    /\ OneStepAtATime
    /\ mpc[1] # "idle" => proc["xbstream"] = "exited"
    /\ mpc[1] \notin {"done", "raised"} => proc["xtrabackup"] = "none"

C9_Witness ==
    /\ StepsOf(trace) = StepOrder
    /\ pc = "done"

\* C10: force-init entered by a voter without a commit index fails with an
\* error before anything is spawned: neither the force-init mysqld nor the
\* engine is started.
C10_VoterWithoutCommitIndexFails ==
    (node_role = NODE_ROLE_VOTER /\ commit_index = None) =>
        /\ \A c \in Children : spawns[c] = 0 /\ proc[c] = "none"
        /\ pc \in {"init_mysqld_metadata", "failed"}
        /\ pc = "failed" => error = "Exception"
        /\ init_metadata_cmd = NoCmd

C10_Witness ==
    /\ node_role = NODE_ROLE_VOTER
    /\ commit_index = None
    /\ cluster_start_index # None
    /\ pc = "failed"
    /\ error = "Exception"

\* some mysqld of the restore (force-init, the long-lived engine) was started
EngineStarted == spawns["forceinit"] > 0 \/ spawns["engine"] > 0

\* the directories of mkdir_needed, the restored data tree, the copied
\* segments and mysql_bin.index belong to mysql
OwnedByMysql ==
    /\ \A p \in {"data", "log", "tmp", "run", "datatree", "index"} : owner[p] = "mysql"
    /\ mysql_bin_list # <<>> => owner["segments"] = "mysql"

\* C11: from the moment the driver starts force-init or the long-lived
\* engine, the data, log, tmp and run directories, the restored data tree,
\* every copied segment and the index file are owned by mysql, and no
\* ownership is assigned once an engine was started.
C11_OwnedByMysqlBeforeAnyEngine ==
    /\ [](EngineStarted => OwnedByMysql)
    /\ [][EngineStarted => owner' = owner]_vars

C11_Witness ==
    /\ spawns["forceinit"] = 1
    /\ spawns["engine"] = 1
    /\ Len(mysql_bin_list) > 1
    /\ OwnedByMysql

\* the segments of the manifests the importer is run with
ImporterSegments ==
    {Segment("seg", n) : n \in 1..MaxSeg} \cup {Segment("mysql_bin", 1)}
\* every manifest over them, in any order, with up to MaxSeg entries
ImporterManifests == SeqsUpTo(ImporterSegments, MaxSeg)

\* start is run again on the node and reaches the importer: the process
\* starts afresh, the files of the earlier run are still there
restore_again ==
    /\ pc \in {"get_xtrabackup_binlog_info", "failed"}
    /\ pc' = "download_binlogbackup_file"
    /\ error' = ""
    /\ mysql_bin_list' = <<>>
    /\ trace' = <<>>
/\ UNCHANGED <<node_role, commit_index, params, owner, staged, marker_file,
               index_file, cluster_start_index, last_binlog, end_index,
               end_term, init_metadata_cmd, apply_backup_cmd, proc, rc,
               spawns, initialized, now, deadline, tested_at, verdict,
               last_output, wait_result, sleeps, queries, mpc, lock,
               mycnf_file, buffer, offset, override_file, mods>>

\* the importer (download_binlogbackup_file, copy_binlog_to_new_path) run
\* any number of times on one node, each time with any manifest
InitImporter ==
    /\ Blank
    /\ pc = "download_binlogbackup_file"
    /\ node_role = NODE_ROLE_LEARNER
    /\ commit_index = None
    /\ marker_file = NoMarker
    /\ params = RequiredFields
    /\ cluster_start_index = None
    /\ end_index = 0
    /\ end_term = 0
    /\ proc = [c \in Children |-> "none"]
    /\ owner = [p \in Paths |-> IF p \in {"data", "log", "tmp", "run"} THEN "mysql"
                                ELSE IF p \in {"restore", "datatree"} THEN "root"
                                ELSE "absent"]
    /\ override_file = TRUE
    /\ mpc = [i \in Invocations |-> "idle"]

NextImporter ==
    \/ download_binlogbackup_file(ImporterManifests)
    \/ copy_binlog_to_new_path
    \/ restore_again

SpecImporter == InitImporter /\ [][NextImporter]_vars

\* the importer has returned
Imported == pc = "get_xtrabackup_binlog_info"

\* C12: whenever the importer has returned, whatever runs came before, the
\* index file read back line by line is exactly the log-directory path of
\* each segment of the latest manifest followed by a newline, in manifest
\* order, and holds nothing else.
C12_IndexIsTheLatestManifest ==
    Imported =>
        /\ readlines(index_file) =
               [k \in DOMAIN mysql_bin_list |-> <<LogPath(mysql_bin_list[k]), NewLine>>]
        /\ Len(index_file) = 2 * Len(mysql_bin_list)

\* an earlier run imported a segment that the latest manifest, which is not
\* in numeric order, does not list
C12_Witness ==
    /\ Imported
    /\ mysql_bin_list = <<Segment("seg", 1), Segment("seg", 3), Segment("seg", 2)>>
    /\ Segment("mysql_bin", 1) \in staged
    /\ readlines(index_file) =
           <<<<LogPath(Segment("seg", 1)), NewLine>>,
             <<LogPath(Segment("seg", 3)), NewLine>>,
             <<LogPath(Segment("seg", 2)), NewLine>>>>

\* C13: when the descriptor lacks a required field (backupCommitIndex,
\* backupFilePath, binlogDirPath, storageName, sink), the run fails with
\* KeyError in start's first step: the role was not yet read, no directory
\* created, nothing downloaded, no configuration written, no child started.
C13_MissingFieldFailsFirst ==
    (pc # "start" /\ params # RequiredFields) =>
        /\ pc = "failed"
        /\ error = "KeyError"
        /\ trace = <<"start">>
        /\ node_role = ""
        /\ NoSideEffects

C13_Witness ==
    /\ params = RequiredFields \ {"sink"}
    /\ pc = "failed"
    /\ owner["data"] = "absent"

\* the children whose exit code the claim names: extraction, the
\* prepare/apply-log pass, chown, force-init and sync
CheckedChildren == {"xbstream", "xtrabackup", "chown", "forceinit", "sync"}

\* some phase of the run failed: a child ended with a non-zero exit code, or
\* an exception (a transfer error, the catch-up timeout, ...) left start
PhaseFailed ==
    \/ \E c \in CheckedChildren : proc[c] = "exited" /\ rc[c] # 0
    \/ error # ""

\* C14: the node is marked initialized only in the last step of a run in
\* which every phase before it succeeded; a run in which a phase failed
\* neither writes the marker nor ends successfully.
C14_MarkedOnlyAfterEveryPhaseSucceeded ==
    /\ initialized =>
          /\ pc = "done"
          /\ trace[Len(trace)] = "mark_node_initialized"
          /\ \A c \in CheckedChildren : spawns[c] = 1 /\ rc[c] = 0
          /\ wait_result = "returned"
    /\ PhaseFailed => (~initialized /\ pc # "done")

\* the same with the exit codes of extraction and prepare/apply-log left out
MarkedAfterEveryCheckedPhase ==
    /\ initialized =>
          /\ pc = "done"
          /\ trace[Len(trace)] = "mark_node_initialized"
          /\ \A c \in CheckedChildren \ {"xbstream", "xtrabackup"} : spawns[c] = 1 /\ rc[c] = 0
          /\ wait_result = "returned"
    /\ ((\E c \in CheckedChildren \ {"xbstream", "xtrabackup"} : proc[c] = "exited" /\ rc[c] # 0)
            \/ error # "")
        => (~initialized /\ pc # "done")

\* C15: once an invocation of initialize_local_mycnf has returned or has
\* raised (out of the override generation or out of the rendering), it does
\* not hold the lock on the configuration file any more.
C15_LockReleasedOnEveryExit ==
    \A i \in Invocations : mpc[i] \in {"done", "raised"} => lock # i

\* one invocation raised while it held the lock, and the other holds it now
C15_Witness ==
    /\ mpc[1] = "raised"
    /\ lock = 2

\* C16: the index force-init is started with, in --cluster-start-index and in
\* --loose-cluster-force-recover-index alike, is backupCommitIndex for a
\* voter, whatever was recovered locally, and for a candidate or a learner
\* the index recovered from the marker file, whatever backupCommitIndex is:
\* None (passed as str(None)) when there is no marker file.
C16_StartIndexChosenByRole ==
    spawns["forceinit"] > 0 =>
        /\ init_metadata_cmd.cluster_start_index =
               init_metadata_cmd.cluster_force_recover_index
        /\ node_role = NODE_ROLE_VOTER =>
               init_metadata_cmd.cluster_start_index = commit_index
        /\ Restoring =>
               /\ init_metadata_cmd.cluster_start_index =
                      get_xtrabackup_binlog_info_from_instance_local(marker_file)
               /\ ~marker_file.exists => init_metadata_cmd.cluster_start_index = None

\* a learner whose descriptor has a commit index other than the recovered one
C16_Witness ==
    /\ node_role = NODE_ROLE_LEARNER
    /\ spawns["forceinit"] = 1
    /\ commit_index = MaxIndex
    /\ marker_file = [exists |-> TRUE, tokens |-> <<MaxIndex, 1>>]
    /\ init_metadata_cmd.cluster_start_index = 1

\* the steps of wait_binlog_apply_ready itself, with the answers explored
\* inside the driver: failing, empty, lagging and caught up
MonitorSteps ==
    \/ wait_binlog_apply_ready
    \/ wait_loop
    \/ wait_sleep
    \/ wait_check(DriverAnswers)

NextMonitorFair ==
    \/ MonitorSteps
    \/ clock_advances
    \/ engine_exits

\* The monitor run on its own by a process that keeps running: whenever it
\* can take its next step, it eventually does.  The clock owes its progress
\* to time.sleep alone: the clock's own steps are not required to happen.
SpecMonitorFair == InitMonitor /\ [][NextMonitorFair]_vars /\ WF_vars(MonitorSteps)

\* the monitor has ended, Ready or TimedOut
MonitorEnded == wait_result \in {"returned", "TimeoutError"}

\* C17: every execution of the monitor ends, as Ready or as TimedOut and
\* never as both: it sleeps at most timeout / 10 times, queries the status no
\* more often than it sleeps, and its outcome, once set, stays.
C17_MonitorTerminates ==
    /\ <>MonitorEnded
    /\ [](sleeps * SLEEP_SECONDS <= timeout /\ queries <= sleeps)
    /\ [][MonitorEnded => wait_result' = wait_result]_vars

\* timed out after as many polls as the timeout has room for
C17_Witness ==
    /\ wait_result = "TimeoutError"
    /\ sleeps * SLEEP_SECONDS = timeout
    /\ queries = sleeps

\* C18: the monitor never reports Ready on a status query issued or answered
\* once the deadline has passed.
C18_NeverReadyPastDeadline ==
    wait_result = "returned" => now < deadline

\* C18, as the code has it: a poll (the sleep and the query after it) is
\* begun only when the deadline had not passed at the test of the loop
\* condition, Ready is reported only by such a poll, and TimedOut at the
\* first test at or after the deadline; the deadline is not tested again
\* between the sleep and the query.
C18_ReadyOnlyFromPollBegunBeforeDeadline ==
    /\ pc \in {"wait_sleep", "wait_check"} => tested_at < deadline
    /\ wait_result = "returned" => (tested_at # None /\ tested_at < deadline)
    /\ wait_result = "TimeoutError" => tested_at >= deadline

\* Ready from a query made when the deadline had passed during the sleep
C18_Witness ==
    /\ wait_result = "returned"
    /\ tested_at < deadline
    /\ now >= deadline
    /\ tested_at + SLEEP_SECONDS = now

\* the longest manifest whose inspection is explored
MaxManifest == 3

\* segment names with the prefix and padding of the engine's own logs
\* (mysql_bin.%06d) and with another prefix or no padding
NamedSegments ==
    {SegmentName(p, n, d) : p \in {"mysql_bin", "seg"}, n \in 1..MaxSeg,
                            d \in {1, SuffixDigits}}
InspectedManifests == SeqsUpTo(NamedSegments, MaxManifest)

\* lines 78-89 of start: the import of any manifest and the inspection of
\* the newest segment
InitInspect ==
    /\ Blank
    /\ pc = "download_binlogbackup_file"
    /\ node_role = NODE_ROLE_LEARNER
    /\ commit_index = None
    /\ params = RequiredFields
    /\ marker_file = NoMarker
    /\ cluster_start_index = None
    /\ end_index = 0
    /\ end_term = 0
    /\ proc = [c \in Children |-> "none"]
    /\ owner = [p \in Paths |-> IF p \in {"data", "log", "tmp", "run"} THEN "mysql"
                                ELSE IF p \in {"restore", "datatree"} THEN "root"
                                ELSE "absent"]
    /\ override_file = TRUE
    /\ mpc = [i \in Invocations |-> "idle"]

NextInspect ==
    \/ download_binlogbackup_file(InspectedManifests)
    \/ copy_binlog_to_new_path
    \/ get_xtrabackup_binlog_info
    \/ chown_data_dir
    \/ chown_exit
    \/ show_last_and_first_binlog
    \/ xdb_show_binlog_index

SpecInspect == InitInspect /\ [][NextInspect]_vars

\* the index-inspection tool was run on last_binlog
Inspected == spawns["mysqlbinlogtailor"] > 0
\* last_binlog is the path of a segment of the manifest with the greatest
\* numeric suffix
NewestImported ==
    \E k \in DOMAIN mysql_bin_list :
        /\ last_binlog = LogPath(mysql_bin_list[k])
        /\ \A j \in DOMAIN mysql_bin_list : mysql_bin_list[j][2] <= mysql_bin_list[k][2]

\* C19: for every non-empty manifest the path handed to the inspection tool
\* is that of an imported segment, the one with the greatest numeric suffix,
\* whatever the order of the manifest and the prefix of the names.
C19_NewestImportedSegmentInspected ==
    (Inspected /\ mysql_bin_list # <<>>) => NewestImported

\* C19, as the code has it: the path handed over is mysql_bin.%06d of the
\* greatest numeric suffix in the index file; it is the newest imported
\* segment, whatever the order of the manifest, when the segments are named
\* mysql_bin.<six digits>.
C19_NewestOfMysqlBinSegmentsInspected ==
    (Inspected /\ mysql_bin_list # <<>>) =>
        /\ \E k \in DOMAIN mysql_bin_list :
               /\ last_binlog = LogPath(Segment("mysql_bin", mysql_bin_list[k][2]))
               /\ \A j \in DOMAIN mysql_bin_list :
                      mysql_bin_list[j][2] <= mysql_bin_list[k][2]
        /\ (\A k \in DOMAIN mysql_bin_list :
               mysql_bin_list[k] = Segment("mysql_bin", mysql_bin_list[k][2]))
             => NewestImported

\* the newest segment comes first in the manifest and gave the target
C19_Witness ==
    /\ pc = "init_mysqld_metadata"
    /\ mysql_bin_list = <<Segment("mysql_bin", MaxSeg), Segment("mysql_bin", 1)>>
    /\ last_binlog = LogPath(Segment("mysql_bin", MaxSeg))
    /\ end_index = MaxIndex

\* init_mysqld_metadata was entered
ForceInitEntered == \E k \in DOMAIN trace : trace[k] = "init_mysqld_metadata"

\* C20: in no run of start is force-init entered by a voter: whenever it is
\* reached or entered the role is candidate or learner, the index it passes
\* is the locally recovered one and not backupCommitIndex as such, and the
\* voter's error for a missing commit index is never raised.
C20_VoterNeverEntersForceInit ==
    (pc = "init_mysqld_metadata" \/ ForceInitEntered) =>
        /\ Restoring
        /\ spawns["forceinit"] > 0 =>
              /\ init_metadata_cmd.cluster_start_index = cluster_start_index
              /\ init_metadata_cmd.cluster_force_recover_index = cluster_start_index
        /\ (pc = "failed" /\ trace[Len(trace)] = "init_mysqld_metadata") =>
              error # "Exception"

\* force-init ran for a descriptor whose commit index differs from the
\* recovered index it was given
C20_Witness ==
    /\ spawns["forceinit"] = 1
    /\ commit_index = MaxIndex
    /\ cluster_start_index = 0
    /\ init_metadata_cmd.cluster_start_index = 0

====
